---- MODULE Spec2Model ----
(***************************************************************************)
(* Model of the RAG-with-source-citations backend:                         *)
(*   - backend/ingestion.py : parse_pdf_chunks (paragraph segmentation)    *)
(*                            and main (the batch ingestion loop);         *)
(*   - backend/main.py      : validate_file and analyze_document (the      *)
(*                            /analyze/ endpoint).                         *)
(* Three specifications share the module: SpecParse runs the generator     *)
(* parse_pdf_chunks over bounded documents, SpecIngest runs ingestion.main *)
(* over bounded manifests, SpecQuery runs concurrent /analyze/ requests on *)
(* one event loop.                                                         *)
(***************************************************************************)
EXTENDS Integers, Sequences, FiniteSets, TLC

VARIABLES
    \* ---- parse_pdf_chunks (generator frame) ----
    doc,                    \* the opened document: a sequence of pages, each a sequence of blocks
    ppc,                    \* position of the generator: "page", "block", "closed", "idle"
    page_num_plus_one,      \* loop variable of line 88 (0 before the first page)
    blocks,                 \* the current page's blocks after the sort of line 91
    i,                      \* index (0-based, as enumerate gives it) of the next block
    current_paragraph_text,
    current_paragraph_num,
    last_block_y1,
    yielded,                \* the chunks the generator has yielded so far, in order
    \* ---- ingestion.main ----
    all_files,              \* the manifest rows read from the CSV
    ipc,                    \* position of main
    idx,                    \* index (1-based) of the manifest row being processed
    chunk_pos,              \* how many chunks of the current document were consumed
    points_to_upload,
    store,                  \* the Qdrant collection: a set of points
    outcome,                \* what main logged for each row of the current run
    upsert_calls,           \* number of upsert calls made for each row of the current run
    run,                    \* how many times main has been started
    \* ---- analyze_document (one frame per request) ----
    rpc,                    \* position of each request's coroutine
    file,                   \* the uploaded file of each request (NoFile when absent)
    tmp_exists,             \* does the request's NamedTemporaryFile exist on disk
    documents,              \* what parser.aload_data returned
    user_doc_text,
    search_results,
    legal_chunks_text,
    calls,                  \* the external calls each request has issued
    response                \* status and body sent back for each request

parseVars == <<doc, ppc, page_num_plus_one, blocks, i, current_paragraph_text,
               current_paragraph_num, last_block_y1, yielded>>
ingestVars == <<all_files, ipc, idx, chunk_pos, points_to_upload, store,
                outcome, upsert_calls, run>>
queryVars == <<rpc, file, tmp_exists, documents, user_doc_text, search_results,
               legal_chunks_text, calls, response>>
vars == <<parseVars, ingestVars, queryVars>>

(***************************************************************************)
(* Text.  A string is a sequence of characters; " " stands for any         *)
(* whitespace character and "w" for any other character.                   *)
(***************************************************************************)
IsSpace(c) == c = " "

RECURSIVE LStrip(_)
LStrip(s) == IF s # <<>> /\ IsSpace(Head(s)) THEN LStrip(Tail(s)) ELSE s

RECURSIVE RStrip(_)
RStrip(s) ==
    IF s # <<>> /\ IsSpace(s[Len(s)]) THEN RStrip(SubSeq(s, 1, Len(s) - 1)) ELSE s

\* str.strip()
Strip(s) == RStrip(LStrip(s))

\* re.sub(r'\s+', ' ', s): every maximal run of whitespace becomes one space
RECURSIVE CollapseWhitespace(_)
CollapseWhitespace(s) ==
    IF s = <<>> THEN <<>>
    ELSE IF IsSpace(Head(s))
         THEN <<" ">> \o CollapseWhitespace(LStrip(s))
         ELSE <<Head(s)>> \o CollapseWhitespace(Tail(s))

\* re.sub(r'\s+', ' ', text).strip()   (lines 113 and 130)
CleanText(s) == Strip(CollapseWhitespace(s))

(***************************************************************************)
(* parse_pdf_chunks                                                        *)
(***************************************************************************)
PARAGRAPH_THRESHOLD == 12

\* Bounds of the documents SpecParse explores.
MaxDocBlocks == 3
MaxPages == 2
PageCounts == 0..MaxPages

\* (y0, y1) of the blocks explored: gaps of 12 (the threshold), 13, 26 and -1 occur.
YSpans == {<<0, 1>>, <<13, 14>>, <<27, 28>>}
XStarts == {0, 1}
\* whitespace only; text with padding and an inner run of whitespace
BlockTexts == {<<" ">>, <<"w", " ", " ", "w", " ">>}

\* A block as page.get_text("blocks") gives it: (x0, y0, x1, y1, text, ...)
Block(x, span, t) == [x0 |-> x, y0 |-> span[1], y1 |-> span[2], text |-> t]
BlockSet == {Block(x, sp, t) : x \in XStarts, sp \in YSpans, t \in BlockTexts}

\* key of the sort of line 91: (b[1], b[0])
KeyLeq(a, b) == a.y0 < b.y0 \/ (a.y0 = b.y0 /\ a.x0 <= b.x0)

\* list.sort is stable: b goes after every element whose key is <= its own
RECURSIVE InsertSorted(_, _)
InsertSorted(s, b) ==
    IF s = <<>> THEN <<b>>
    ELSE IF KeyLeq(s[Len(s)], b) THEN Append(s, b)
    ELSE Append(InsertSorted(SubSeq(s, 1, Len(s) - 1), b), s[Len(s)])

RECURSIVE SortBlocks(_)
SortBlocks(s) ==
    IF s = <<>> THEN <<>>
    ELSE InsertSorted(SortBlocks(SubSeq(s, 1, Len(s) - 1)), s[Len(s)])

\* lines 103-110, with >= in place of >
IsNewParagraph_Geq(k, block_y0, y1) ==
    IF k = 0 THEN TRUE ELSE block_y0 - y1 >= PARAGRAPH_THRESHOLD

\* lines 103-110
IsNewParagraph(k, block_y0, y1) ==
    IF k = 0 THEN TRUE ELSE block_y0 - y1 > PARAGRAPH_THRESHOLD

Chunk(page, num, text) ==
    [page_number |-> page, paragraph_number |-> num, text |-> text]

\* lines 113-119 and 130-136: the chunk is yielded unless its clean text is empty
YieldOf(page, num, text) ==
    IF CleanText(text) # <<>> THEN <<Chunk(page, num, CleanText(text))>> ELSE <<>>

\* The body of the loop of line 97 with the paragraph closed on every new-paragraph
\* block, whether or not any text was accumulated.
BlockStep_NoTextGuard(k, block, page, text, num, y1) ==
    LET block_text == Strip(block.text)
        is_new == IsNewParagraph(k, block.y0, y1)
    IN  IF block_text = <<>>
        THEN [text |-> text, num |-> num, y1 |-> y1, out |-> <<>>]
        ELSE IF is_new
        THEN [text |-> block_text, num |-> num + 1, y1 |-> block.y1,
              out |-> YieldOf(page, num, text)]
        ELSE [text |-> IF text # <<>> THEN text \o <<" ">> \o block_text ELSE block_text,
              num |-> num, y1 |-> block.y1, out |-> <<>>]

\* The body of the loop of line 97 for block number k (0-based) of the sorted page:
\* the new values of the three accumulators and the chunk yielded, if any.
BlockStep(k, block, page, text, num, y1) ==
    LET block_text == Strip(block.text)
        is_new == IsNewParagraph(k, block.y0, y1)
    IN  IF block_text = <<>>
        THEN [text |-> text, num |-> num, y1 |-> y1, out |-> <<>>]
        ELSE IF is_new /\ text # <<>>
        THEN [text |-> block_text, num |-> num + 1, y1 |-> block.y1,
              out |-> YieldOf(page, num, text)]
        ELSE [text |-> IF text # <<>> THEN text \o <<" ">> \o block_text ELSE block_text,
              num |-> num, y1 |-> block.y1, out |-> <<>>]

\* lines 129-136
FlushOf(page, num, text) == IF text # <<>> THEN YieldOf(page, num, text) ELSE <<>>

\* The sequences over S of length at most n.
SeqsUpTo(S, n) == UNION {[1..m -> S] : m \in 0..n}

\* Split the block sequence s at the cut points c (non-decreasing, one per page boundary).
PagesOf(s, cuts) ==
    [p \in 1..(Len(cuts) + 1) |->
        SubSeq(s, (IF p = 1 THEN 0 ELSE cuts[p - 1]) + 1,
                  IF p = Len(cuts) + 1 THEN Len(s) ELSE cuts[p])]

NonDecreasing(c) == \A k \in 1..(Len(c) - 1) : c[k] <= c[k + 1]

\* The documents that hold the blocks of s, in that order, on n pages.
DocsOf(s, n) ==
    IF n = 0 THEN {<<>>}
    ELSE {PagesOf(s, c) : c \in {d \in [1..(n - 1) -> 0..Len(s)] : NonDecreasing(d)}}

\* The values the frames hold while their subsystem is not running.
ParseIdle ==
    /\ doc = <<>> /\ ppc = "idle" /\ page_num_plus_one = 0 /\ blocks = <<>> /\ i = 0
    /\ current_paragraph_text = <<>> /\ current_paragraph_num = 0 /\ last_block_y1 = 0
    /\ yielded = <<>>

\* lines 93-95: the accumulators at the start of every page
PageAccumulators(prev_num) == [text |-> <<>>, num |-> 1, y1 |-> 0]

\* line 86: doc = fitz.open(pdf_path); nothing of the loop has run yet
InitParse ==
    /\ \E m \in 0..MaxDocBlocks : \E s \in [1..m -> BlockSet] :
          \E n \in PageCounts : doc \in DocsOf(s, n)
    /\ ppc = "page" /\ page_num_plus_one = 0 /\ blocks = <<>> /\ i = 0
    /\ current_paragraph_text = <<>> /\ current_paragraph_num = 0 /\ last_block_y1 = 0
    /\ yielded = <<>>

\* lines 88-95: the next page is loaded, its blocks sorted, the accumulators reset
LoadPage ==
    /\ ppc = "page"
    /\ page_num_plus_one < Len(doc)
    /\ LET acc == PageAccumulators(current_paragraph_num)
       IN  /\ page_num_plus_one' = page_num_plus_one + 1
           /\ blocks' = SortBlocks(doc[page_num_plus_one + 1])
           /\ current_paragraph_text' = acc.text
           /\ current_paragraph_num' = acc.num
           /\ last_block_y1' = acc.y1
    /\ i' = 0
    /\ ppc' = "block"
    /\ UNCHANGED <<doc, yielded>>
    /\ UNCHANGED <<ingestVars, queryVars>>

\* lines 97-127: one iteration of the loop over the sorted blocks
ProcessBlock ==
    /\ ppc = "block"
    /\ i < Len(blocks)
    /\ LET r == BlockStep(i, blocks[i + 1], page_num_plus_one, current_paragraph_text,
                          current_paragraph_num, last_block_y1)
       IN  /\ current_paragraph_text' = r.text
           /\ current_paragraph_num' = r.num
           /\ last_block_y1' = r.y1
           /\ yielded' = yielded \o r.out
    /\ i' = i + 1
    /\ UNCHANGED <<doc, ppc, page_num_plus_one, blocks>>
    /\ UNCHANGED <<ingestVars, queryVars>>

\* lines 129-136: the last paragraph of the page is yielded
FlushPage ==
    /\ ppc = "block"
    /\ i = Len(blocks)
    /\ yielded' = yielded \o FlushOf(page_num_plus_one, current_paragraph_num,
                                     current_paragraph_text)
    /\ ppc' = "page"
    /\ UNCHANGED <<doc, page_num_plus_one, blocks, i, current_paragraph_text,
                   current_paragraph_num, last_block_y1>>
    /\ UNCHANGED <<ingestVars, queryVars>>

\* line 137: the loop of line 88 is over
CloseDoc ==
    /\ ppc = "page"
    /\ page_num_plus_one = Len(doc)
    /\ ppc' = "closed"
    /\ UNCHANGED <<doc, page_num_plus_one, blocks, i, current_paragraph_text,
                   current_paragraph_num, last_block_y1, yielded>>
    /\ UNCHANGED <<ingestVars, queryVars>>

\* parse_pdf_chunks as a function of the document: the chunks it yields, in order.
RECURSIVE ParseBlocksFrom(_, _, _, _, _, _)
ParseBlocksFrom(bs, k, page, text, num, y1) ==
    IF k = Len(bs) THEN FlushOf(page, num, text)
    ELSE LET r == BlockStep(k, bs[k + 1], page, text, num, y1)
         IN  r.out \o ParseBlocksFrom(bs, k + 1, page, r.text, r.num, r.y1)

ParsePage(raw, page) ==
    LET acc == PageAccumulators(0)
    IN  ParseBlocksFrom(SortBlocks(raw), 0, page, acc.text, acc.num, acc.y1)

RECURSIVE ParsePagesFrom(_, _)
ParsePagesFrom(d, p) ==
    IF p > Len(d) THEN <<>> ELSE ParsePage(d[p], p) \o ParsePagesFrom(d, p + 1)

ParsePdfChunks(d) == ParsePagesFrom(d, 1)


(***************************************************************************)
(* ingestion.main                                                          *)
(***************************************************************************)
\* Bounds of the manifests and runs SpecIngest explores.
MaxManifest == 2
MaxRuns == 2

\* The PDF directory: two files exist.  a.pdf has two pages, one paragraph on each
\* (the first made of two blocks); b.pdf has one page without any text.
PdfA ==
    << << Block(0, <<13, 14>>, <<"w", " ", "w">>), Block(0, <<0, 1>>, <<"w">>) >>,
       << Block(1, <<13, 14>>, <<" ", "w">>) >> >>
PdfB == << << Block(0, <<0, 1>>, <<" ">>) >> >>
PdfNames == {"a.pdf", "b.pdf"}
PdfFile(name) == IF name = "a.pdf" THEN PdfA ELSE PdfB

\* The rows csv.DictReader can give: "" is an empty or absent field.
ManifestRows ==
    { [filename |-> "a.pdf",    source_id |-> "S1"],
      [filename |-> "b.pdf",    source_id |-> "S2"],
      [filename |-> "gone.pdf", source_id |-> "S3"],
      [filename |-> "",         source_id |-> "S4"],
      [filename |-> "a.pdf",    source_id |-> ""] }

\* line 187
RowIncomplete(row) == row.filename = "" \/ row.source_id = ""

\* line 194: os.path.exists(pdf_path)
PathExists(row) == row.filename \in PdfNames

\* The chunks parse_pdf_chunks yields for each file, and for the file of a row
\* (line 202).
ChunksOfPdfA == ParsePdfChunks(PdfA)
ChunksOfPdfB == ParsePdfChunks(PdfB)
RowChunks(row) == IF PdfFile(row.filename) = PdfA THEN ChunksOfPdfA ELSE ChunksOfPdfB

\* lines 212-218
Payload(row, chunk) ==
    [filename |-> row.filename, source_id |-> row.source_id,
     page_number |-> chunk.page_number, paragraph_number |-> chunk.paragraph_number,
     text_chunk |-> chunk.text]

\* The embedding service is a function of the text it is given.
EmbeddingOf(text) == <<"embedding", text>>

\* A point id derived from what the point holds.
NewPointId_FromContent(fresh, payload) ==
    <<payload.source_id, payload.page_number, payload.paragraph_number>>

\* uuid.uuid4() gives a value no earlier call gave; the value is named after the
\* call that drew it: the run, the row and the chunk.
Uuid4(r, k, c) == <<r, k, c>>

\* line 222: str(uuid.uuid4()), whatever the payload
NewPointId(fresh, payload) == fresh

\* lines 220-226
PointStruct(fresh, row, chunk) ==
    [id |-> NewPointId(fresh, Payload(row, chunk)),
     vector |-> EmbeddingOf(chunk.text),
     payload |-> Payload(row, chunk)]

\* Qdrant's upsert: a point replaces the stored point of the same id.
RECURSIVE UpsertPoints(_, _)
UpsertPoints(st, pts) ==
    IF pts = <<>> THEN st
    ELSE UpsertPoints({q \in st : q.id # Head(pts).id} \cup {Head(pts)}, Tail(pts))

\* Where main goes when the body of the try of line 193 raises: the handler of
\* line 238 that lets the exception through.
AfterFailure_Reraise == "aborted"

\* lines 238-240: the exception is logged and the for loop goes on
AfterFailure == "loop"

\* lines 189 and 196: continue
AfterSkip == "loop"

\* Where main goes after a point was appended, with the upsert inside the loop.
AfterAppend_UpsertInLoop == "upsert"

\* line 226 back to line 202: the next chunk is asked of the generator
AfterAppend == "chunks"

IngestIdle ==
    /\ all_files = <<>> /\ ipc = "idle" /\ idx = 0 /\ chunk_pos = 0
    /\ points_to_upload = <<>> /\ store = {}
    /\ outcome = <<>> /\ upsert_calls = <<>> /\ run = 0

Pending(rows) == [k \in 1..Len(rows) |-> "pending"]
NoCalls(rows) == [k \in 1..Len(rows) |-> 0]

\* main is started on an empty collection; all_files is what the CSV holds.
InitIngest ==
    /\ all_files \in SeqsUpTo(ManifestRows, MaxManifest)
    /\ ipc = "start" /\ idx = 0 /\ chunk_pos = 0
    /\ points_to_upload = <<>> /\ store = {}
    /\ outcome = Pending(all_files) /\ upsert_calls = NoCalls(all_files)
    /\ run = 1

ingestFrame == <<all_files, run>>

\* lines 152-167: the clients are created; failing to reach Ollama ends the run
Connect ==
    /\ ipc = "start"
    /\ \/ ipc' = "read_csv"
       \/ ipc' = "aborted"
    /\ UNCHANGED <<ingestFrame, idx, chunk_pos, points_to_upload, store,
                   outcome, upsert_calls>>
    /\ UNCHANGED <<parseVars, queryVars>>

\* lines 170-180: the manifest is read; failing to read it ends the run
ReadCsv ==
    /\ ipc = "read_csv"
    /\ \/ ipc' = "loop"
       \/ ipc' = "aborted"
    /\ UNCHANGED <<ingestFrame, idx, chunk_pos, points_to_upload, store,
                   outcome, upsert_calls>>
    /\ UNCHANGED <<parseVars, queryVars>>

\* lines 183-200: the next row is taken; it is skipped, or its file is opened
NextRow ==
    /\ ipc = "loop"
    /\ idx < Len(all_files)
    /\ idx' = idx + 1
    /\ LET row == all_files[idx + 1]
       IN  IF RowIncomplete(row)
           THEN /\ outcome' = [outcome EXCEPT ![idx + 1] = "skipped_row"]
                /\ ipc' = AfterSkip
                /\ UNCHANGED <<points_to_upload, chunk_pos>>
           ELSE IF ~PathExists(row)
           THEN /\ outcome' = [outcome EXCEPT ![idx + 1] = "not_found"]
                /\ ipc' = AfterSkip
                /\ UNCHANGED <<points_to_upload, chunk_pos>>
           ELSE /\ points_to_upload' = <<>>
                /\ chunk_pos' = 0
                /\ ipc' = "chunks"
                /\ UNCHANGED outcome
    /\ UNCHANGED <<ingestFrame, store, upsert_calls>>
    /\ UNCHANGED <<parseVars, queryVars>>

\* line 202: the generator is resumed.  It yields the next chunk, is exhausted
\* (lines 228-236), or raises (fitz fails to open the file or to read a page).
NextChunk ==
    /\ ipc = "chunks"
    /\ LET chunks == RowChunks(all_files[idx])
       IN  \/ /\ chunk_pos < Len(chunks)
              /\ ipc' = "embed"
              /\ UNCHANGED outcome
           \/ /\ chunk_pos = Len(chunks)
              /\ IF points_to_upload # <<>>
                 THEN ipc' = "upsert" /\ UNCHANGED outcome
                 ELSE /\ ipc' = "loop"
                      /\ outcome' = [outcome EXCEPT ![idx] = "no_chunks"]
           \/ /\ ipc' = AfterFailure
              /\ outcome' = [outcome EXCEPT ![idx] = "failed_parse"]
    /\ UNCHANGED <<ingestFrame, idx, chunk_pos, points_to_upload, store,
                   upsert_calls>>
    /\ UNCHANGED <<parseVars, queryVars>>

\* lines 204-226: the chunk is embedded and its point appended, or the call raises
EmbedChunk ==
    /\ ipc = "embed"
    /\ LET row == all_files[idx]
           chunk == RowChunks(row)[chunk_pos + 1]
       IN  \/ /\ points_to_upload' = Append(points_to_upload,
                                            PointStruct(Uuid4(run, idx, chunk_pos + 1), row, chunk))
              /\ chunk_pos' = chunk_pos + 1
              /\ ipc' = AfterAppend
              /\ UNCHANGED outcome
           \/ /\ ipc' = AfterFailure
              /\ outcome' = [outcome EXCEPT ![idx] = "failed_embed"]
              /\ UNCHANGED <<points_to_upload, chunk_pos>>
    /\ UNCHANGED <<ingestFrame, idx, store, upsert_calls>>
    /\ UNCHANGED <<parseVars, queryVars>>

\* lines 229-234: the batch is upserted; when the call raises, the points before
\* the one it failed on may have been written
Upsert ==
    /\ ipc = "upsert"
    /\ upsert_calls' = [upsert_calls EXCEPT ![idx] = @ + 1]
    /\ \/ /\ store' = UpsertPoints(store, points_to_upload)
          /\ outcome' = [outcome EXCEPT ![idx] = "uploaded"]
          /\ ipc' = "loop"
       \/ /\ \E n \in 0..(Len(points_to_upload) - 1) :
                store' = UpsertPoints(store, SubSeq(points_to_upload, 1, n))
          /\ outcome' = [outcome EXCEPT ![idx] = "failed_upsert"]
          /\ ipc' = AfterFailure
    /\ UNCHANGED <<ingestFrame, idx, chunk_pos, points_to_upload>>
    /\ UNCHANGED <<parseVars, queryVars>>

\* lines 242-243: the loop of line 183 is over
Complete ==
    /\ ipc = "loop"
    /\ idx = Len(all_files)
    /\ ipc' = "complete"
    /\ UNCHANGED <<ingestFrame, idx, chunk_pos, points_to_upload, store,
                   outcome, upsert_calls>>
    /\ UNCHANGED <<parseVars, queryVars>>

\* lines 246-247: the script is run again, over the same CSV, the same PDF
\* directory and the collection the earlier runs left on disk
RunAgain ==
    /\ ipc \in {"complete", "aborted"}
    /\ run < MaxRuns
    /\ run' = run + 1
    /\ ipc' = "start" /\ idx' = 0 /\ chunk_pos' = 0 /\ points_to_upload' = <<>>
    /\ outcome' = Pending(all_files) /\ upsert_calls' = NoCalls(all_files)
    /\ UNCHANGED <<all_files, store>>
    /\ UNCHANGED <<parseVars, queryVars>>


(***************************************************************************)
(* main.py: validate_file and analyze_document                             *)
(***************************************************************************)
MAX_FILE_MB == 5
MAX_FILE_BYTES == MAX_FILE_MB * 1024 * 1024
ALLOWED_MIME_TYPES ==
    {"application/pdf", "application/msword",
     "application/vnd.openxmlformats-officedocument.wordprocessingml.document",
     "image/png", "image/jpeg", "image/jpg"}
TOP_K_RESULTS == 5

\* The requests in flight and the bound on the hits a search returns.
Requests == {"r1", "r2"}
MaxHits == 2

NoFile == [present |-> FALSE, content_type |-> "", size |-> 0]
UploadFile(ct, n) == [present |-> TRUE, content_type |-> ct, size |-> n]
Uploads ==
    {NoFile} \cup
    {UploadFile(ct, n) : ct \in {"application/pdf", "text/plain"},
                         n \in {MAX_FILE_BYTES, MAX_FILE_BYTES + 1}}

\* What parser.aload_data can return: no document, a document without text,
\* a document with text, two documents.
ParseOutcomes == {<<>>, <<"">>, <<"lease">>, <<"lease", "annex">>}

\* The payloads of the points a search can return; result.payload may be None.
NonePayload == [k \in {} |-> ""]
HitPayloads ==
    { [filename |-> "a.pdf", page_number |-> 1, paragraph_number |-> 2,
       text_chunk |-> "law"],
      NonePayload }
SearchOutcomes ==
    SeqsUpTo(HitPayloads, IF MaxHits < TOP_K_RESULTS THEN MaxHits ELSE TOP_K_RESULTS)

\* lines 138-142, with the allow-list never consulted
ValidateFileRejects_Never(f) == FALSE

\* lines 138-142: validate_file raises HTTPException(415)
ValidateFileRejects(f) == f.content_type \notin ALLOWED_MIME_TYPES

\* lines 157-161: HTTPException(413)
TooLarge(n) == n > MAX_FILE_BYTES

\* The with block of line 168 removing its file only when the body did not raise.
TmpAfterWith_KeptOnError(raised) == raised

\* line 168: NamedTemporaryFile(delete=True) is removed when the with block is left,
\* by return or by exception; does the file still exist afterwards?
TmpAfterWith(raised) == FALSE

\* lines 185-188
CombinedQueryText(text) ==
    IF text # "" THEN <<"USER'S DOCUMENT:", text, "USER'S QUESTION:">>
    ELSE <<"USER'S QUESTION ONLY:">>

\* dict.get(key, default) on result.payload or {}
Get(payload, key, default) == IF key \in DOMAIN payload THEN payload[key] ELSE default

\* an integer field as the f-string of line 209 prints it
GetNumber(payload, key, default) ==
    IF key \in DOMAIN payload THEN ToString(payload[key]) ELSE default

\* line 209
Cite(payload) ==
    [filename |-> Get(payload, "filename", "N/A"),
     page |-> GetNumber(payload, "page_number", "N/A"),
     para |-> GetNumber(payload, "paragraph_number", "N/A")]

\* The number in the header of line 210, taken as enumerate gives it.
ChunkNumber_ZeroBased(k) == k

\* line 210: f"Legal Chunk {i+1}" for the enumerate index i
ChunkNumber(k) == k + 1

\* lines 207-211: the two lines appended for result number k (0-based)
RenderChunk(k, payload) ==
    << [kind |-> "header", n |-> ChunkNumber(k), cite |-> Cite(payload)],
       [kind |-> "text", text |-> Get(payload, "text_chunk", "No text available.")] >>

RECURSIVE RenderFrom(_, _)
RenderFrom(results, k) ==
    IF k = Len(results) THEN <<>>
    ELSE RenderChunk(k, results[k + 1]) \o RenderFrom(results, k + 1)

Notice == [kind |-> "notice"]

\* lines 205-213
LegalChunksText(results) ==
    IF results # <<>> THEN RenderFrom(results, 0) ELSE <<Notice>>

NoResponse == [status |-> 0, detail |-> "", count |-> 0]
HttpError(code, what) == [status |-> code, detail |-> what, count |-> 0]

QueryIdle ==
    /\ rpc = [r \in Requests |-> "idle"]
    /\ file = [r \in Requests |-> NoFile]
    /\ tmp_exists = [r \in Requests |-> FALSE]
    /\ documents = [r \in Requests |-> <<>>]
    /\ user_doc_text = [r \in Requests |-> ""]
    /\ search_results = [r \in Requests |-> <<>>]
    /\ legal_chunks_text = [r \in Requests |-> <<>>]
    /\ calls = [r \in Requests |-> {}]
    /\ response = [r \in Requests |-> NoResponse]

InitQuery ==
    /\ rpc = [r \in Requests |-> "new"]
    /\ file = [r \in Requests |-> NoFile]
    /\ tmp_exists = [r \in Requests |-> FALSE]
    /\ documents = [r \in Requests |-> <<>>]
    /\ user_doc_text = [r \in Requests |-> ""]
    /\ search_results = [r \in Requests |-> <<>>]
    /\ legal_chunks_text = [r \in Requests |-> <<>>]
    /\ calls = [r \in Requests |-> {}]
    /\ response = [r \in Requests |-> NoResponse]

\* The handlers are coroutines on one event-loop thread.  A coroutine is resumed
\* only when the thread is free; qdrant_client.search (line 195) is a plain call,
\* so the thread is held by the request that is inside it.
LoopFree == \A q \in Requests : rpc[q] # "searching"

\* The request ends with an HTTPException (lines 239-243).
Fail(r, code, what) ==
    /\ rpc' = [rpc EXCEPT ![r] = "done"]
    /\ response' = [response EXCEPT ![r] = HttpError(code, what)]

\* lines 152-156 and 182-191: the handler starts.  With a file, validate_file runs
\* and file.read() is awaited; without one the question alone is embedded.
Arrive(r) ==
    /\ rpc[r] = "new"
    /\ LoopFree
    /\ \E f \in Uploads :
          /\ file' = [file EXCEPT ![r] = f]
          /\ IF f.present
             THEN IF ValidateFileRejects(f)
                  THEN /\ Fail(r, 415, "unsupported_type")
                       /\ UNCHANGED calls
                  ELSE /\ rpc' = [rpc EXCEPT ![r] = "reading"]
                       /\ UNCHANGED <<calls, response>>
             ELSE /\ rpc' = [rpc EXCEPT ![r] = "embed_wait"]
                  /\ calls' = [calls EXCEPT ![r] = @ \cup {"embed"}]
                  /\ UNCHANGED response
    /\ UNCHANGED <<tmp_exists, documents, user_doc_text, search_results,
                   legal_chunks_text>>
    /\ UNCHANGED <<parseVars, ingestVars>>

\* lines 156-171: the bytes are there.  Too many end the request; otherwise the
\* temporary file is created and written (which may raise) and the parser called.
ReadDone(r) ==
    /\ rpc[r] = "reading"
    /\ LoopFree
    /\ IF TooLarge(file[r].size)
       THEN /\ Fail(r, 413, "too_large")
            /\ UNCHANGED <<tmp_exists, calls>>
       ELSE \/ /\ tmp_exists' = [tmp_exists EXCEPT ![r] = TRUE]
               /\ calls' = [calls EXCEPT ![r] = @ \cup {"parse"}]
               /\ rpc' = [rpc EXCEPT ![r] = "parse_wait"]
               /\ UNCHANGED response
            \/ /\ tmp_exists' = [tmp_exists EXCEPT ![r] = TmpAfterWith(TRUE)]
               /\ Fail(r, 400, "parse_failed")
               /\ UNCHANGED calls
    /\ UNCHANGED <<file, documents, user_doc_text, search_results, legal_chunks_text>>
    /\ UNCHANGED <<parseVars, ingestVars>>

\* lines 171-191: aload_data returns or raises and the with block is left; an empty
\* list ends the request, otherwise the first document's text is taken and the
\* combined query embedded.
ParseDone(r) ==
    /\ rpc[r] = "parse_wait"
    /\ LoopFree
    /\ \/ /\ tmp_exists' = [tmp_exists EXCEPT ![r] = TmpAfterWith(TRUE)]
          /\ Fail(r, 400, "parse_failed")
          /\ UNCHANGED <<documents, user_doc_text, calls>>
       \/ \E docs \in ParseOutcomes :
             /\ tmp_exists' = [tmp_exists EXCEPT ![r] = TmpAfterWith(FALSE)]
             /\ documents' = [documents EXCEPT ![r] = docs]
             /\ IF docs = <<>>
                THEN /\ Fail(r, 400, "empty_parse")
                     /\ UNCHANGED <<user_doc_text, calls>>
                ELSE /\ user_doc_text' = [user_doc_text EXCEPT ![r] = docs[1]]
                     /\ calls' = [calls EXCEPT ![r] = @ \cup {"embed"}]
                     /\ rpc' = [rpc EXCEPT ![r] = "embed_wait"]
                     /\ UNCHANGED response
    /\ UNCHANGED <<file, search_results, legal_chunks_text>>
    /\ UNCHANGED <<parseVars, ingestVars>>

\* lines 191-195: the embedding is there (or the call raised) and search is called
EmbedDone(r) ==
    /\ rpc[r] = "embed_wait"
    /\ LoopFree
    /\ \/ /\ Fail(r, 500, "internal")
          /\ UNCHANGED calls
       \/ /\ rpc' = [rpc EXCEPT ![r] = "searching"]
          /\ calls' = [calls EXCEPT ![r] = @ \cup {"search"}]
          /\ UNCHANGED response
    /\ UNCHANGED <<file, tmp_exists, documents, user_doc_text, search_results,
                   legal_chunks_text>>
    /\ UNCHANGED <<parseVars, ingestVars>>

\* lines 195-230: search returns (or raises); the grounding block and the prompt
\* are built and the completion is asked for
SearchDone(r) ==
    /\ rpc[r] = "searching"
    /\ \/ /\ Fail(r, 500, "internal")
          /\ UNCHANGED <<search_results, legal_chunks_text, calls>>
       \/ \E results \in SearchOutcomes :
             /\ search_results' = [search_results EXCEPT ![r] = results]
             /\ legal_chunks_text' =
                    [legal_chunks_text EXCEPT ![r] = LegalChunksText(results)]
             /\ calls' = [calls EXCEPT ![r] = @ \cup {"complete"}]
             /\ rpc' = [rpc EXCEPT ![r] = "complete_wait"]
             /\ UNCHANGED response
    /\ UNCHANGED <<file, tmp_exists, documents, user_doc_text>>
    /\ UNCHANGED <<parseVars, ingestVars>>

\* lines 230-237: the completion is there (or the call raised); RAGResponse
CompleteDone(r) ==
    /\ rpc[r] = "complete_wait"
    /\ LoopFree
    /\ \/ Fail(r, 500, "internal")
       \/ /\ rpc' = [rpc EXCEPT ![r] = "done"]
          /\ response' = [response EXCEPT ![r] =
                [status |-> 200, detail |-> "ok", count |-> Len(search_results[r])]]
    /\ UNCHANGED <<file, tmp_exists, documents, user_doc_text, search_results,
                   legal_chunks_text, calls>>
    /\ UNCHANGED <<parseVars, ingestVars>>

RequestStep(r) ==
    \/ Arrive(r)
    \/ ReadDone(r)
    \/ ParseDone(r)
    \/ EmbedDone(r)
    \/ SearchDone(r)
    \/ CompleteDone(r)

(***************************************************************************)
(* Specifications                                                          *)
(***************************************************************************)
InitParseSpec == InitParse /\ IngestIdle /\ QueryIdle

NextParse ==
    \/ LoadPage
    \/ ProcessBlock
    \/ FlushPage
    \/ CloseDoc

SpecParse == InitParseSpec /\ [][NextParse]_vars

InitIngestSpec == ParseIdle /\ InitIngest /\ QueryIdle

NextIngest ==
    \/ Connect
    \/ ReadCsv
    \/ NextRow
    \/ NextChunk
    \/ EmbedChunk
    \/ Upsert
    \/ Complete
    \/ RunAgain

SpecIngest == InitIngestSpec /\ [][NextIngest]_vars

\* Every call main makes returns or raises, so main always takes its next step.
FairSpecIngest == SpecIngest /\ WF_vars(NextIngest)

InitQuerySpec == ParseIdle /\ IngestIdle /\ InitQuery

NextQuery == \E r \in Requests : RequestStep(r)

SpecQuery == InitQuerySpec /\ [][NextQuery]_vars

Spec == SpecQuery


(***************************************************************************)
(* Properties of ingestion.main                                            *)
(***************************************************************************)
\* main is inside the loop of line 183.
InLoop == ipc \in {"loop", "chunks", "embed", "upsert"}

AllVisited == \A k \in 1..Len(all_files) : outcome[k] # "pending"

\* C1: once the loop of line 183 has started, no row aborts the batch: whatever
\* rows are incomplete, name a missing file, or fail while parsing, embedding or
\* upserting, the run that entered the loop never ends early: it stays inside the
\* loop until it reaches "Ingestion process complete", it does reach it, and when
\* it does every row of the manifest has been visited.
C1_NoRowAbortsBatch ==
    /\ [](ipc = "complete" => AllVisited)
    /\ [][InLoop => (ipc' # "aborted" /\ run' = run)]_vars
    /\ InLoop ~> (ipc = "complete")

\* A run completed although its first row failed while embedding and its second
\* row was uploaded.
C1_Witness ==
    /\ ipc = "complete"
    /\ Len(all_files) >= 2
    /\ outcome[1] = "failed_embed"
    /\ outcome[2] = "uploaded"

KeyOf(p) == <<p.payload.source_id, p.payload.page_number, p.payload.paragraph_number>>

PointsWithKey(key) == {q \in store : KeyOf(q) = key}

\* How many points of that key one run over the manifest uploads at most.
OneRunCount(key) ==
    Cardinality({k \in 1..Len(all_files) :
        /\ ~RowIncomplete(all_files[k])
        /\ PathExists(all_files[k])
        /\ all_files[k].source_id = key[1]
        /\ \E c \in 1..Len(RowChunks(all_files[k])) :
              /\ RowChunks(all_files[k])[c].page_number = key[2]
              /\ RowChunks(all_files[k])[c].paragraph_number = key[3]})

\* C4 as claimed: after a second run over the same manifest and documents the
\* store holds, for every {source_id, page_number, paragraph_number}, no more
\* points than one run puts there.
C4_SecondRunAddsNothing ==
    (run >= 2 /\ ipc = "complete") =>
        \A p \in store : Cardinality(PointsWithKey(KeyOf(p))) <= OneRunCount(KeyOf(p))

\* C4 as the code has it: ingestion appends.  Every successful upsert keeps all
\* stored points and adds one new point per chunk of the document, so the n-th
\* run can bring the points of a {source_id, page_number, paragraph_number} to n
\* times what one run uploads, and never beyond.
C4_AppendOnly ==
    /\ [][(ipc = "upsert" /\ outcome'[idx] = "uploaded") =>
            /\ store \subseteq store'
            /\ Cardinality(store') = Cardinality(store) + Len(points_to_upload)]_vars
    /\ [](\A p \in store :
            Cardinality(PointsWithKey(KeyOf(p))) <= run * OneRunCount(KeyOf(p)))

\* The second run is complete and a key that one run uploads once has two points.
C4_Witness ==
    /\ run = 2
    /\ ipc = "complete"
    /\ \E p \in store :
          /\ OneRunCount(KeyOf(p)) = 1
          /\ Cardinality(PointsWithKey(KeyOf(p))) = 2

\* C10: ingestion is all-or-nothing per document.  The store changes only in the
\* upsert of line 229, which is called at most once per row and only with one
\* point for every chunk of the row's document; a row that failed while parsing
\* or embedding, or that has no chunks, has no upsert call.
C10_AllOrNothing ==
    /\ [][store' # store =>
            /\ ipc = "upsert"
            /\ points_to_upload # <<>>
            /\ Len(points_to_upload) = Len(RowChunks(all_files[idx]))
            /\ \A j \in 1..Len(points_to_upload) :
                  points_to_upload[j].payload =
                      Payload(all_files[idx], RowChunks(all_files[idx])[j])]_vars
    /\ [](\A k \in 1..Len(all_files) :
            /\ upsert_calls[k] <= 1
            /\ outcome[k] \in {"failed_parse", "failed_embed", "no_chunks"}
                   => upsert_calls[k] = 0)

\* A document failed while embedding after some of its chunks had been embedded,
\* and the store holds nothing.
C10_Witness ==
    /\ ipc = "loop"
    /\ idx >= 1
    /\ outcome[idx] = "failed_embed"
    /\ points_to_upload # <<>>
    /\ upsert_calls[idx] = 0
    /\ store = {}

(***************************************************************************)
(* Properties of parse_pdf_chunks                                          *)
(***************************************************************************)
NonEmptyBlock(k) == Strip(blocks[k + 1].text) # <<>>

\* The last non-empty block before block k of the sorted page (0-based), or -1.
RECURSIVE PrevNonEmpty(_)
PrevNonEmpty(k) ==
    IF k = 0 THEN -1
    ELSE IF NonEmptyBlock(k - 1) THEN k - 1 ELSE PrevNonEmpty(k - 1)

SortedPage == \A k \in 1..(Len(blocks) - 1) : KeyLeq(blocks[k], blocks[k + 1])

\* C6: when the loop reaches a non-empty block that has a non-empty block before
\* it in sorted order, the block starts a new paragraph (the accumulated one is
\* yielded, the counter goes up, the accumulator restarts with the block) if and
\* only if its y0 minus the y1 of the previous non-empty block is strictly
\* greater than PARAGRAPH_THRESHOLD; otherwise, a gap equal to the threshold
\* included, it is appended to the current paragraph.
C6_NewParagraphIffGapExceeds ==
    [][(ppc = "block" /\ i' = i + 1 /\ NonEmptyBlock(i) /\ PrevNonEmpty(i) >= 0) =>
        LET gap == blocks[i + 1].y0 - blocks[PrevNonEmpty(i) + 1].y1
            block_text == Strip(blocks[i + 1].text)
        IN  /\ SortedPage
            /\ IF gap > PARAGRAPH_THRESHOLD
               THEN /\ current_paragraph_num' = current_paragraph_num + 1
                    /\ current_paragraph_text' = block_text
                    /\ Len(yielded') = Len(yielded) + 1
               ELSE /\ current_paragraph_num' = current_paragraph_num
                    /\ current_paragraph_text' =
                           current_paragraph_text \o <<" ">> \o block_text
                    /\ yielded' = yielded]_vars

\* Two non-empty blocks with an empty block between them in sorted order and a gap
\* of exactly the threshold have been put into the same, first paragraph.
C6_Witness ==
    /\ ppc = "block"
    /\ i = 3
    /\ NonEmptyBlock(0) /\ ~NonEmptyBlock(1) /\ NonEmptyBlock(2)
    /\ blocks[3].y0 - blocks[1].y1 = PARAGRAPH_THRESHOLD
    /\ current_paragraph_num = 1
    /\ current_paragraph_text = Strip(blocks[1].text) \o <<" ">> \o Strip(blocks[3].text)
    /\ yielded = <<>>

\* C7: the chunks yielded for one page carry strictly increasing paragraph
\* numbers, the first of them 1, on every page of the document.
C7_ParagraphNumbers ==
    \A b \in 1..Len(yielded) :
        /\ (\A a \in 1..(b - 1) : yielded[a].page_number # yielded[b].page_number)
               => yielded[b].paragraph_number = 1
        /\ \A a \in 1..(b - 1) :
               yielded[a].page_number = yielded[b].page_number
                   => yielded[a].paragraph_number < yielded[b].paragraph_number

\* A document was parsed whose first page gave paragraphs 1 and 2 and whose second
\* page gave paragraph 1 again.
C7_Witness ==
    /\ ppc = "closed"
    /\ Len(yielded) = 3
    /\ yielded[1].page_number = 1 /\ yielded[1].paragraph_number = 1
    /\ yielded[2].page_number = 1 /\ yielded[2].paragraph_number = 2
    /\ yielded[3].page_number = 2 /\ yielded[3].paragraph_number = 1

(***************************************************************************)
(* Properties of analyze_document                                          *)
(***************************************************************************)
Arrived(r) == rpc[r] # "new"
ClientError(r) == response[r].status >= 400 /\ response[r].status <= 499

\* C2: a request whose file has a content type outside the allow-list or more
\* than MAX_FILE_BYTES bytes makes no parse, embedding, search or completion
\* call, creates no temporary file, and ends in a client error.
C2_ValidationShortCircuits ==
    \A r \in Requests :
        (/\ Arrived(r)
         /\ file[r].present
         /\ \/ file[r].content_type \notin ALLOWED_MIME_TYPES
            \/ file[r].size > MAX_FILE_BYTES)
        => /\ calls[r] = {}
           /\ ~tmp_exists[r]
           /\ rpc[r] \in {"reading", "done"}
           /\ rpc[r] = "done" => ClientError(r)

\* One request was refused for its content type and another for its size.
C2_Witness ==
    /\ rpc["r1"] = "done" /\ response["r1"].status = 415
    /\ file["r1"].content_type = "text/plain"
    /\ rpc["r2"] = "done" /\ response["r2"].status = 413
    /\ file["r2"].content_type = "application/pdf"
    /\ file["r2"].size = MAX_FILE_BYTES + 1
    /\ calls["r1"] = {} /\ calls["r2"] = {}

\* The parser returned, and what it returned has no text to extract.
ParsedWithoutText(r) ==
    /\ "parse" \in calls[r]
    /\ rpc[r] # "parse_wait"
    /\ response[r].detail # "parse_failed"
    /\ \/ documents[r] = <<>>
       \/ documents[r][1] = ""

\* C3: when the parse of an uploaded file yields no extractable text (no document
\* at all, or a first document whose text is empty) the request makes no
\* embedding, search or completion call and ends with the empty-parse client
\* error.
C3_EmptyParseRejected ==
    \A r \in Requests :
        ParsedWithoutText(r) =>
            /\ calls[r] = {"parse"}
            /\ rpc[r] = "done"
            /\ response[r].status = 400
            /\ response[r].detail = "empty_parse"

IsHeader(part) == part.kind = "header"

\* C5: once the prompt is assembled its grounding section is not empty; with no
\* search result it is the notice, otherwise it holds one "Legal Chunk" header per
\* result, numbered 1..n in the order of the results and citing them, and n is
\* the retrieved_sources_count of the response.
C5_GroundingMatchesResults ==
    \A r \in Requests :
        (rpc[r] = "complete_wait" \/ (rpc[r] = "done" /\ response[r].status = 200)) =>
            LET g == legal_chunks_text[r]
                res == search_results[r]
                headers == SelectSeq(g, IsHeader)
            IN  /\ g # <<>>
                /\ IF res = <<>>
                   THEN g = <<Notice>>
                   ELSE /\ \A k \in 1..Len(g) : g[k] # Notice
                        /\ Len(headers) = Len(res)
                        /\ \A k \in 1..Len(res) :
                              /\ headers[k].n = k
                              /\ headers[k].cite = Cite(res[k])
                /\ rpc[r] = "done" => response[r].count = Len(headers)

\* One request answered with two grounding chunks, another holds the notice.
C5_Witness ==
    /\ rpc["r1"] = "done" /\ response["r1"].status = 200 /\ response["r1"].count = 2
    /\ Len(SelectSeq(legal_chunks_text["r1"], IsHeader)) = 2
    /\ rpc["r2"] = "complete_wait"
    /\ search_results["r2"] = <<>>
    /\ legal_chunks_text["r2"] = <<Notice>>

\* C8: the temporary file of a request exists exactly while the request is inside
\* the parse call: it is there when the parser has been called and has not yet
\* returned, and at no other time, so no request ends with its file in place.
C8_TempFileScoped ==
    \A r \in Requests :
        /\ tmp_exists[r] => (rpc[r] = "parse_wait" /\ "parse" \in calls[r])
        /\ rpc[r] = "parse_wait" => tmp_exists[r]

\* One request left the parse step by an exception and another by an empty parse
\* result, and neither file exists.
C8_Witness ==
    /\ rpc["r1"] = "done" /\ "parse" \in calls["r1"]
    /\ response["r1"].detail = "parse_failed"
    /\ rpc["r2"] = "done" /\ "parse" \in calls["r2"]
    /\ response["r2"].detail = "empty_parse"
    /\ ~tmp_exists["r1"] /\ ~tmp_exists["r2"]

InExternalCall(r) == rpc[r] \in {"parse_wait", "embed_wait", "searching", "complete_wait"}
InFlight(r) == rpc[r] \notin {"new", "done"}

\* C9: while one request is inside an external call (parsing, embedding, vector
\* search, completion), every other request in flight can take its next step.
C9_CallsSuspendIndependently ==
    \A r \in Requests : \A q \in Requests \ {r} :
        (InExternalCall(r) /\ InFlight(q)) => ENABLED RequestStep(q)

====
